---------------------------- MODULE Spec2Model ----------------------------
(***************************************************************************)
(* Model of get-binance-history.py: the BinanceAPI client (request         *)
(* signing and execution) and the scan get_recent_filled_orders, which     *)
(* probes a list of candidate symbols for FILLED orders, merges, sorts and *)
(* truncates them.                                                         *)
(*                                                                         *)
(* Python values are modelled as follows.  A dict is the sequence of its   *)
(* <<key, value>> pairs in insertion order.  A parameter value is tagged   *)
(* with its Python type, <<"int", 20>> or <<"str", "BTCUSDT">>, because    *)
(* urlencode formats the two differently.  A JSON value (and what a method *)
(* returns) is [t |-> its type, v |-> its content as a sequence]: null,    *)
(* a list of items, a dict as its pairs.  A call ends in a record          *)
(* [raised, value]: the value returned, or the exception that escaped.     *)
(***************************************************************************)
EXTENDS Integers, Sequences, FiniteSets, TLC

VARIABLES
    pc,                   \* position of the caller: idle, account, loop, orders, done
    op,                   \* the method of BinanceAPI being (or last) called
    limit,                \* argument of get_recent_filled_orders
    now,                  \* wall clock, in milliseconds since the epoch
    request,              \* the HTTP request most recently handed to the transport
    last,                 \* what the latest _make_request got and gave back
    sent,                 \* HTTP GETs issued by the current top-level call, in order
    invocations,          \* _make_request invocations of the current top-level call
    account_info,         \* local of get_recent_filled_orders
    symbols_with_balance, \* local of get_recent_filled_orders
    idx,                  \* number of loop iterations completed
    all_filled_orders,    \* local of get_recent_filled_orders
    ret,                  \* outcome of the current top-level call
    orders_db,            \* the exchange: the account's order history
    fetched               \* symbols whose orders were received and filtered

vars == <<pc, op, limit, now, request, last, sent, invocations, account_info,
          symbols_with_balance, idx, all_filled_orders, ret, orders_db, fetched>>

-----------------------------------------------------------------------------
(* Bounds of the model                                                     *)

MaxLimit == 2        \* limit ranges over 0..MaxLimit
MaxOrders == 2       \* orders in the exchange's history
MaxApiOrders == 1    \* the same, where the clock runs as well
MaxTime == 2         \* order times range over 1..MaxTime
MaxClock == 1        \* the clock ranges over 0..MaxClock
MaxSeed == 1         \* iteration orders of a set: rotations 0..MaxSeed
MaxBalances == 3     \* balances in an account body given to the builder

(* Program constants                                                       *)

ScanCap == 15        \* symbols_with_balance[:15]
ScanLimit == 20      \* get_all_orders(symbol, limit=20)
StatusOK == 200      \* response.status_code == 200

api_key == "APIKEY"
secret_key == "SECRET"
base_url == "https://api.binance.com"

popular_symbols == <<"BTCUSDT", "ETHUSDT", "BNBUSDT", "ADAUSDT", "SOLUSDT">>

-----------------------------------------------------------------------------
(* Python and JSON values                                                  *)

JNull == [t |-> "null", v |-> <<>>]
JList(items) == [t |-> "list", v |-> items]
JDict(pairs) == [t |-> "dict", v |-> pairs]

\* `not x` for None, a list or a dict
Falsy(x) == x.t = "null" \/ x.v = <<>>

Returned(x) == [raised |-> FALSE, value |-> x]
Raised(e) == [raised |-> TRUE, value |-> [t |-> "exception", v |-> <<e>>]]

PyInt(n) == <<"int", n>>
PyStr(s) == <<"str", s>>

Range(s) == {s[i] : i \in 1..Len(s)}

Min(a, b) == IF a <= b THEN a ELSE b

\* s[:n] for n >= 0
Take(s, n) == SubSeq(s, 1, Min(n, Len(s)))

\* dict[key] = value: an existing key keeps its place, a new one goes last
DictSet(d, key, value) ==
    IF \E i \in 1..Len(d) : d[i][1] = key
    THEN [i \in 1..Len(d) |-> IF d[i][1] = key THEN <<key, value>> ELSE d[i]]
    ELSE Append(d, <<key, value>>)

Keys(d) == [i \in 1..Len(d) |-> d[i][1]]

HasKey(d, key) == \E i \in 1..Len(d) : d[i][1] = key

DictGet(d, key) == d[CHOOSE i \in 1..Len(d) : d[i][1] = key][2]

-----------------------------------------------------------------------------
(* Signer and request executor                                             *)

\* str(v) followed by quote_plus, which leaves letters and digits alone
QuoteValue(v) == IF v[1] = "int" THEN ToString(v[2]) ELSE v[2]

RECURSIVE urlencode(_)
urlencode(params) ==
    IF params = <<>> THEN ""
    ELSE IF Len(params) = 1 THEN params[1][1] \o "=" \o QuoteValue(params[1][2])
    ELSE params[1][1] \o "=" \o QuoteValue(params[1][2]) \o "&" \o urlencode(Tail(params))

\* HMAC-SHA256 hex digest, kept symbolic: equal exactly when key and message are
_generate_signature(query_string) == "hmac(" \o secret_key \o "," \o query_string \o ")"

\* mutant of BuildRequest: the signature is computed before the timestamp is added
BuildRequestSignFirst(endpoint, params, clock) ==
    LET signed == DictSet(params, "signature", PyStr(_generate_signature(urlencode(params))))
    IN  [method |-> "GET",
         url |-> base_url \o endpoint,
         params |-> DictSet(signed, "timestamp", PyInt(clock)),
         headers |-> <<<<"X-MBX-APIKEY", api_key>>>>]

\* _make_request up to the call of requests.get: the request handed to the transport
BuildRequest(endpoint, params, clock) ==
    LET stamped == DictSet(params, "timestamp", PyInt(clock))
        query_string == urlencode(stamped)
        signature == _generate_signature(query_string)
        signed == DictSet(stamped, "signature", PyStr(signature))
    IN  [method |-> "GET",
         url |-> base_url \o endpoint,
         params |-> signed,
         headers |-> <<<<"X-MBX-APIKEY", api_key>>>>]

NoRequest == [method |-> "", url |-> "", params |-> <<>>, headers |-> <<>>]

\* the parameters the caller passed, without what _make_request added
Business(params) ==
    SelectSeq(params, LAMBDA kv : kv[1] # "timestamp" /\ kv[1] # "signature")

\* requests.get is called once per invocation; the log keeps where it went and
\* the caller's parameters
HttpGet(log, req) == Append(log, [url |-> req.url, params |-> Business(req.params)])

(* What the transport does with a request: it raises, or it hands back a   *)
(* response with a status and a JSON body.                                 *)
TransportError == [kind |-> "error", status |-> 0, body |-> JNull]
Response(status, body) == [kind |-> "response", status |-> status, body |-> body]

\* mutant of Interpret: a status other than 200 raises
InterpretRaising(outcome) ==
    IF outcome.kind = "error" THEN Raised("ConnectionError")
    ELSE IF outcome.status = StatusOK THEN Returned(outcome.body)
    ELSE Raised("HTTPError")

\* _make_request from the return of requests.get on
Interpret(outcome) ==
    IF outcome.kind = "error" THEN Raised("ConnectionError")
    ELSE IF outcome.status = StatusOK THEN Returned(outcome.body)
    ELSE Returned(JNull)

-----------------------------------------------------------------------------
(* The exchange, as far as the client sees it                              *)

Assets == <<"BTC", "ADA", "XRP">>
FreeAmounts == {"0.00000000", "0.10000000"}
LockedAmounts == {"0.00000000", "2.50000000"}

\* float() of a decimal string of the account body, in units of 1e-8
float(s) ==
    CASE s = "0.00000000" -> 0
      [] s = "0.10000000" -> 10000000
      [] s = "2.50000000" -> 250000000

Balances == [asset : Range(Assets), free : FreeAmounts, locked : LockedAmounts]

\* account bodies the builder is applied to: any list of up to MaxBalances balances
BuilderBalances == UNION {[1..n -> Balances] : n \in 0..MaxBalances}

\* account bodies of a scan: the first n assets are held, the others are empty
HoldFirst(n) ==
    [i \in 1..Len(Assets) |->
        [asset |-> Assets[i],
         free |-> IF i <= n THEN "0.10000000" ELSE "0.00000000",
         locked |-> "0.00000000"]]

ScanBalances == {HoldFirst(n) : n \in 0..Len(Assets)}

AccountBody(balances) == JDict(<<<<"balances", balances>>>>)

ErrorStatuses == {418}
ErrorBody == JDict(<<<<"msg", <<"error">>>>>>)

\* the symbols the exchange lists; any other symbol is refused
LiveSymbols == {"BTCUSDT", "ETHUSDT"}

OrderStatuses == {"FILLED", "NEW"}

\* a FILLED order of any time; the time of any other order is never read, so
\* an order still NEW is given the latest one
OrderKinds ==
    [symbol : LiveSymbols, status : {"FILLED"}, time : 1..MaxTime]
    \cup [symbol : LiveSymbols, status : OrderStatuses \ {"FILLED"}, time : {MaxTime}]

MakeOrder(kind, id) ==
    [symbol |-> kind.symbol, orderId |-> id, status |-> kind.status, time |-> kind.time]

\* order histories: up to MaxOrders orders, numbered in the order of the history
OrderHistories ==
    UNION {{[i \in 1..n |-> MakeOrder(kinds[i], i)] : kinds \in [1..n -> OrderKinds]}
           : n \in 0..MaxOrders}

\* GET /api/v3/allOrders?symbol=: the orders of one symbol (fewer than ScanLimit)
OrdersOf(db, symbol) == SelectSeq(db, LAMBDA o : o.symbol = symbol)

Failures == {TransportError} \cup {Response(s, ErrorBody) : s \in ErrorStatuses}

AccountOutcomes ==
    Failures
    \cup {Response(StatusOK, AccountBody(b)) : b \in ScanBalances}
    \cup {Response(StatusOK, JDict(<<>>)), Response(StatusOK, ErrorBody)}

\* a body whose last order carries no 'status' field
NoStatus == "(no status)"
Malformed(orders) ==
    Append(orders, [symbol |-> "", orderId |-> 0, status |-> NoStatus, time |-> 1])

OrdersOutcomes(db, symbol) ==
    Failures
    \cup (IF symbol \in LiveSymbols
          THEN {Response(StatusOK, JList(OrdersOf(db, symbol))),
                Response(StatusOK, JList(Malformed(OrdersOf(db, symbol))))}
          ELSE {})

\* GET /api/v3/openOrders and GET /api/v3/myTrades
OpenOrders(db) == SelectSeq(db, LAMBDA o : o.status = "NEW")
TradesOf(db, symbol) ==
    SelectSeq(db, LAMBDA o : o.status = "FILLED" /\ o.symbol = symbol)

-----------------------------------------------------------------------------
(* Symbol-universe builder                                                 *)

common_pairs(asset) ==
    <<asset \o "USDT", asset \o "BTC", asset \o "ETH", "BTC" \o asset, "ETH" \o asset>>

Positive(balance) == float(balance.free) > 0 \/ float(balance.locked) > 0

\* the loop over account_info['balances'], then extend(popular_symbols)
RECURSIVE PairsOf(_)
PairsOf(balances) ==
    IF balances = <<>> THEN <<>>
    ELSE (IF Positive(Head(balances)) THEN common_pairs(Head(balances).asset) ELSE <<>>)
         \o PairsOf(Tail(balances))

RawSymbols(balances) == PairsOf(balances) \o popular_symbols

\* mutant of Dedup: duplicates are kept
KeepDuplicates(xs) == xs

\* set(xs): each element once (here in the order of first occurrence)
RECURSIVE Dedup(_)
Dedup(xs) ==
    IF xs = <<>> THEN <<>>
    ELSE LET rest == Dedup(SubSeq(xs, 1, Len(xs) - 1))
         IN  IF xs[Len(xs)] \in Range(rest) THEN rest ELSE Append(rest, xs[Len(xs)])

Rotate(s, k) ==
    IF s = <<>> THEN s
    ELSE [i \in 1..Len(s) |-> s[((i - 1 + k) % Len(s)) + 1]]

\* list(set(xs)): the iteration order of a set is arbitrary; the model tries the
\* rotations 0..MaxSeed of the order of first occurrence
SetToLists(xs) == {Rotate(Dedup(xs), k) : k \in 0..MaxSeed}

-----------------------------------------------------------------------------
(* Fill scanner                                                            *)

\* mutant of Filter: the status is not tested
FilterNothing(orders) ==
    IF \E i \in 1..Len(orders) : orders[i].status = NoStatus
    THEN Raised("KeyError")
    ELSE Returned(JList(orders))

\* [order for order in orders if order['status'] == 'FILLED']
Filter(orders) ==
    IF \E i \in 1..Len(orders) : orders[i].status = NoStatus
    THEN Raised("KeyError")
    ELSE Returned(JList(SelectSeq(orders, LAMBDA o : o.status = "FILLED")))

\* mutant of InsertPoint: an order goes before the orders of the same time
InsertPointBeforeTies(sorted, o) ==
    Cardinality({i \in 1..Len(sorted) : sorted[i].time > o.time})

\* where list.sort(key=time, reverse=True) puts o among the already sorted
InsertPoint(sorted, o) == Cardinality({i \in 1..Len(sorted) : sorted[i].time >= o.time})

Insert(sorted, o) ==
    LET k == InsertPoint(sorted, o)
    IN  SubSeq(sorted, 1, k) \o <<o>> \o SubSeq(sorted, k + 1, Len(sorted))

\* mutant of SortByTimeDesc: reverse=True is missing
RECURSIVE SortByTimeAsc(_)
SortByTimeAsc(orders) ==
    IF orders = <<>> THEN <<>>
    ELSE LET rest == SortByTimeAsc(SubSeq(orders, 1, Len(orders) - 1))
             o == orders[Len(orders)]
             k == Cardinality({i \in 1..Len(rest) : rest[i].time <= o.time})
         IN  SubSeq(rest, 1, k) \o <<o>> \o SubSeq(rest, k + 1, Len(rest))

\* all_filled_orders.sort(key=lambda x: x['time'], reverse=True): a stable sort
RECURSIVE SortByTimeDesc(_)
SortByTimeDesc(orders) ==
    IF orders = <<>> THEN <<>>
    ELSE Insert(SortByTimeDesc(SubSeq(orders, 1, Len(orders) - 1)), orders[Len(orders)])

\* mutant of Scanned: the list is not capped
ScanAll(symbols) == symbols

\* symbols_with_balance[:15]
Scanned(symbols) == Take(symbols, ScanCap)

\* get_all_orders: params = {'limit': limit}, then symbol if it is truthy
AllOrdersParams(symbol, lim) ==
    IF symbol = "" THEN <<<<"limit", PyInt(lim)>>>>
    ELSE <<<<"limit", PyInt(lim)>>, <<"symbol", PyStr(symbol)>>>>

NoLast == [outcome |-> Response(0, JNull), result |-> Returned(JNull)]

Init ==
    /\ pc = "idle"
    /\ op = ""
    /\ limit = 0
    /\ now = 0
    /\ request = NoRequest
    /\ last = NoLast
    /\ sent = <<>>
    /\ invocations = 0
    /\ account_info = JNull
    /\ symbols_with_balance = <<>>
    /\ idx = 0
    /\ all_filled_orders = <<>>
    /\ ret = Returned(JNull)
    /\ orders_db \in OrderHistories
    /\ fetched = {}

\* a method is entered: the locals of the scan are fresh
Enter(method) ==
    /\ pc \in {"idle", "done"}
    /\ op' = method
    /\ limit' = 0
    /\ account_info' = JNull
    /\ symbols_with_balance' = <<>>
    /\ idx' = 0
    /\ all_filled_orders' = <<>>
    /\ fetched' = {}

\* get_recent_filled_orders: entry, up to get_account_info sending its request
CallScan ==
    /\ Enter("get_recent_filled_orders")
    /\ request' = BuildRequest("/api/v3/account", <<>>, now)
    /\ sent' = HttpGet(<<>>, request')
    /\ invocations' = 1
    /\ last' = NoLast
    /\ ret' = Returned(JNull)
    /\ pc' = "account"
    /\ UNCHANGED <<now, orders_db>>

\* mutant of AccountAbsent: the guard is missing
AccountNeverAbsent(info) == FALSE

\* `not account_info`
AccountAbsent(info) == Falsy(info)

\* the account response arrives: lines 121-141
AccountResponse ==
    /\ pc = "account"
    /\ \E outcome \in AccountOutcomes :
         LET result == Interpret(outcome)
         IN  /\ last' = [outcome |-> outcome, result |-> result]
             /\ IF result.raised
                THEN /\ ret' = result
                     /\ pc' = "done"
                     /\ UNCHANGED <<account_info, symbols_with_balance>>
                ELSE IF AccountAbsent(result.value)
                THEN /\ ret' = Returned(JList(<<>>))
                     /\ pc' = "done"
                     /\ account_info' = result.value
                     /\ UNCHANGED symbols_with_balance
                ELSE IF ~HasKey(result.value.v, "balances")
                THEN /\ ret' = Raised(IF result.value.t = "null"
                                      THEN "TypeError" ELSE "KeyError")
                     /\ pc' = "done"
                     /\ account_info' = result.value
                     /\ UNCHANGED symbols_with_balance
                ELSE /\ account_info' = result.value
                     /\ symbols_with_balance' \in
                            SetToLists(RawSymbols(DictGet(result.value.v, "balances")))
                     /\ pc' = "loop"
                     /\ UNCHANGED ret
    /\ UNCHANGED <<op, limit, now, request, sent, invocations, idx, all_filled_orders,
                   orders_db, fetched>>

\* the loop takes its next symbol and get_all_orders sends the request
SymbolRequest ==
    /\ pc = "loop"
    /\ idx < Len(Scanned(symbols_with_balance))
    /\ request' = BuildRequest("/api/v3/allOrders",
                               AllOrdersParams(symbols_with_balance[idx + 1], ScanLimit),
                               now)
    /\ sent' = HttpGet(sent, request')
    /\ invocations' = invocations + 1
    /\ pc' = "orders"
    /\ UNCHANGED <<op, limit, now, last, account_info, symbols_with_balance, idx,
                   all_filled_orders, ret, orders_db, fetched>>

\* what one iteration adds to all_filled_orders: nothing when the request raised,
\* returned nothing or the filter raised (except: continue)
Collected(result) ==
    IF result.raised \/ Falsy(result.value) THEN <<>>
    ELSE IF Filter(result.value.v).raised THEN <<>>
    ELSE Filter(result.value.v).value.v

\* whether the try block of an iteration raised
Failed(result) ==
    \/ result.raised
    \/ ~Falsy(result.value) /\ Filter(result.value.v).raised

\* mutant of Continue: except: break
Break(i, n) == n

\* except: continue, in iteration i + 1 of n: the loop goes on to the next symbol
Continue(i, n) == i + 1

\* the response for the current symbol arrives: lines 146-152
SymbolResponse ==
    /\ pc = "orders"
    /\ \E outcome \in OrdersOutcomes(orders_db, symbols_with_balance[idx + 1]) :
         LET result == Interpret(outcome)
         IN  /\ last' = [outcome |-> outcome, result |-> result]
             /\ all_filled_orders' = all_filled_orders \o Collected(result)
             /\ idx' = IF Failed(result)
                       THEN Continue(idx, Len(Scanned(symbols_with_balance)))
                       ELSE idx + 1
             /\ fetched' = IF ~result.raised /\ result.value.t = "list"
                              /\ ~Filter(result.value.v).raised
                           THEN fetched \cup {symbols_with_balance[idx + 1]}
                           ELSE fetched
    /\ pc' = "loop"
    /\ UNCHANGED <<op, limit, now, request, sent, invocations, account_info,
                   symbols_with_balance, ret, orders_db>>

\* after the loop: lines 154-159.  The argument `limit` is read nowhere before
\* line 157, so its value is drawn here.
Finish ==
    /\ pc = "loop"
    /\ idx = Len(Scanned(symbols_with_balance))
    /\ \E l \in 0..MaxLimit :
         /\ limit' = l
         /\ IF all_filled_orders # <<>>
            THEN /\ all_filled_orders' = SortByTimeDesc(all_filled_orders)
                 /\ ret' = Returned(JList(Take(all_filled_orders', l)))
            ELSE /\ ret' = Returned(JList(<<>>))
                 /\ UNCHANGED all_filled_orders
    /\ pc' = "done"
    /\ UNCHANGED <<op, now, request, last, sent, invocations, account_info,
                   symbols_with_balance, idx, orders_db, fetched>>

Next ==
    \/ CallScan
    \/ AccountResponse
    \/ SymbolRequest
    \/ SymbolResponse
    \/ Finish

Spec == Init /\ [][Next]_vars

-----------------------------------------------------------------------------
(* The other methods, the clock, and runs that mix them with scans          *)

\* a method that is one _make_request: request, response and return
ApiCall(method, endpoint, params, outcomes) ==
    /\ Enter(method)
    /\ request' = BuildRequest(endpoint, params, now)
    /\ sent' = HttpGet(<<>>, request')
    /\ invocations' = 1
    /\ \E outcome \in outcomes :
         /\ last' = [outcome |-> outcome, result |-> Interpret(outcome)]
         /\ ret' = Interpret(outcome)
    /\ pc' = "done"
    /\ UNCHANGED <<now, orders_db>>

GetAccountInfo ==
    ApiCall("get_account_info", "/api/v3/account", <<>>, AccountOutcomes)

GetOpenOrders ==
    ApiCall("get_open_orders", "/api/v3/openOrders", <<>>,
            Failures \cup {Response(StatusOK, JList(OpenOrders(orders_db)))})

\* symbol "" stands for a symbol that is not given (or is empty): `if symbol:`
ApiSymbols == {"", "BTCUSDT"}

GetAllOrders ==
    \E symbol \in ApiSymbols : \E lim \in {10} :
        ApiCall("get_all_orders", "/api/v3/allOrders", AllOrdersParams(symbol, lim),
                OrdersOutcomes(orders_db, symbol))

GetLastTrade ==
    \E symbol \in ApiSymbols : \E lim \in {1} :
        ApiCall("get_last_trade", "/api/v3/myTrades", AllOrdersParams(symbol, lim),
                Failures \cup (IF symbol \in LiveSymbols
                               THEN {Response(StatusOK, JList(TradesOf(orders_db, symbol)))}
                               ELSE {}))

\* the wall clock advances
Tick ==
    /\ now < MaxClock
    /\ now' = now + 1
    /\ UNCHANGED <<pc, op, limit, request, last, sent, invocations, account_info,
                   symbols_with_balance, idx, all_filled_orders, ret, orders_db, fetched>>

InitApi == Init /\ Len(orders_db) <= MaxApiOrders

NextApi ==
    \/ CallScan
    \/ AccountResponse
    \/ SymbolRequest
    \/ SymbolResponse
    \/ Finish
    \/ GetAccountInfo
    \/ GetOpenOrders
    \/ GetAllOrders
    \/ GetLastTrade
    \/ Tick

SpecApi == InitApi /\ [][NextApi]_vars

-----------------------------------------------------------------------------
(* The symbol-universe builder on its own, over every account body         *)

BuildSymbols ==
    /\ pc = "idle"
    /\ \E balances \in BuilderBalances :
         /\ account_info' = AccountBody(balances)
         /\ symbols_with_balance' \in SetToLists(RawSymbols(balances))
    /\ pc' = "built"
    /\ UNCHANGED <<op, limit, now, request, last, sent, invocations, idx,
                   all_filled_orders, ret, orders_db, fetched>>

InitBuilder == Init /\ orders_db = <<>>

NextBuilder == BuildSymbols

SpecBuilder == InitBuilder /\ [][NextBuilder]_vars

-----------------------------------------------------------------------------
(* Vocabulary of the properties                                            *)

InScan == op = "get_recent_filled_orders"

\* the scan has returned a list (no exception escaped)
ScanReturned == InScan /\ pc = "done" /\ ~ret.raised

\* the scan has run its loop to the end and returned
ScanCompleted == ScanReturned /\ symbols_with_balance # <<>>

Result == ret.value.v

AccountUrl == "https://api.binance.com/api/v3/account"
AllOrdersUrl == "https://api.binance.com/api/v3/allOrders"

\* the symbols of the per-symbol requests sent so far, in order
RequestedSeq == [i \in 1..(Len(sent) - 1) |-> DictGet(sent[i + 1].params, "symbol")[2]]

FilledIn(symbols) ==
    {o \in Range(orders_db) : o.status = "FILLED" /\ o.symbol \in symbols}

Descending(orders) ==
    \A i, j \in 1..Len(orders) : i < j => orders[i].time >= orders[j].time

NoRepeats(xs) == \A i, j \in 1..Len(xs) : i # j => xs[i] # xs[j]

\* result is the n most recent orders of the set S, most recent first
TopOf(result, S, n) ==
    /\ Range(result) \subseteq S
    /\ NoRepeats(result)
    /\ Len(result) = Min(n, Cardinality(S))
    /\ Descending(result)
    /\ \A o \in S \ Range(result) : \A r \in Range(result) : o.time <= r.time

Position(xs, x) == CHOOSE i \in 1..Len(xs) : xs[i] = x

\* a before b in the order the scan meets them: by symbol, then within the response
EncounteredBefore(a, b) ==
    LET pa == Position(symbols_with_balance, a.symbol)
        pb == Position(symbols_with_balance, b.symbol)
    IN  pa < pb \/ (pa = pb /\ a.orderId < b.orderId)

-----------------------------------------------------------------------------
C2_ResultShape ==
    ScanReturned =>
        /\ Len(Result) <= limit
        /\ \A i \in 1..Len(Result) :
               /\ Result[i].status = "FILLED"
               /\ Result[i] \in Range(orders_db)
               /\ Result[i].symbol \in fetched
               /\ Result[i].symbol \in Range(RequestedSeq)
        /\ Descending(Result)
        /\ (FilledIn(fetched) = {} => Result = <<>>)

C2_Witness ==
    /\ ScanReturned
    /\ limit = 1
    /\ Len(Result) = 1
    /\ Cardinality(FilledIn(fetched)) = 2
    /\ \E o \in FilledIn(fetched) : o.time < Result[1].time

(* C3 as stated: whatever the outcome of each request, the scan returns a  *)
(* list and no error escapes it.                                           *)
C3_NoErrorEscapes == (InScan /\ pc = "done") => ~ret.raised

(* C4: a failure for one symbol does not abort the scan: the requests sent *)
(* are exactly the scanned candidates in order, one per iteration, and the *)
(* accumulated orders are exactly the FILLED orders of the symbols whose   *)
(* orders were received and filtered, before and after the failure.        *)
C4_FailureDoesNotAbort ==
    (InScan /\ pc \in {"loop", "orders", "done"} /\ symbols_with_balance # <<>>) =>
        LET scanned == Scanned(symbols_with_balance)
        IN  /\ idx <= Len(scanned)
            /\ RequestedSeq = SubSeq(scanned, 1, idx + (IF pc = "orders" THEN 1 ELSE 0))
            /\ (pc = "done" => idx = Len(scanned))
            /\ fetched \subseteq Range(SubSeq(scanned, 1, idx))
            /\ Range(all_filled_orders) = FilledIn(fetched)
            /\ Len(all_filled_orders) = Cardinality(FilledIn(fetched))
            /\ (ScanReturned => Result = Take(all_filled_orders, limit))

C4_Witness ==
    /\ ScanCompleted
    /\ limit = 2
    /\ \E i, j, k \in 1..Len(Scanned(symbols_with_balance)) :
           /\ i < j /\ j < k
           /\ symbols_with_balance[i] \in fetched
           /\ symbols_with_balance[j] \notin fetched
           /\ symbols_with_balance[k] \in fetched
           /\ \E a, b \in Range(Result) :
                  a.symbol = symbols_with_balance[i] /\ b.symbol = symbols_with_balance[k]

\* the account request has come back with null (a status other than 200)
AccountYieldedNull ==
    /\ InScan
    /\ pc \notin {"idle", "account"}
    /\ invocations = 1
    /\ ~last.result.raised
    /\ last.result.value.t = "null"

(* C5: when the account request yields null, the scan returns the empty    *)
(* list, raises nothing and has sent the account request only.             *)
C5_NoAccountInfo ==
    AccountYieldedNull =>
        /\ pc = "done"
        /\ ret = Returned(JList(<<>>))
        /\ Len(sent) = 1
        /\ sent[1].url = AccountUrl

C5_Witness ==
    /\ AccountYieldedNull
    /\ pc = "done"
    /\ last.outcome.kind = "response"
    /\ last.outcome.status = 418

(* C6: each invocation of _make_request issues exactly one GET; a response *)
(* with status 200 is answered with its body, any other status with null   *)
(* and no exception, so the caller that gets it ends without raising.      *)
C6_OneGetPerInvocation ==
    /\ Len(sent) = invocations
    /\ (last # NoLast /\ last.outcome.kind = "response") =>
           /\ last.outcome.status = 200 => last.result = Returned(last.outcome.body)
           /\ last.outcome.status # 200 => last.result = Returned(JNull)
           /\ (last.outcome.status # 200 /\ pc = "done") => ~ret.raised

C6_Witness ==
    /\ pc = "done"
    /\ op = "get_all_orders"
    /\ last.outcome.kind = "response"
    /\ last.outcome.status = 418
    /\ ret = Returned(JNull)
    /\ Len(sent) = 1

\* the five pairs of an asset, spelled out
FivePairs(asset) ==
    {asset \o "USDT", asset \o "BTC", asset \o "ETH", "BTC" \o asset, "ETH" \o asset}

Held(balance) == balance.free # "0.00000000" \/ balance.locked # "0.00000000"

(* C7: the candidate list has no duplicates and holds exactly the five     *)
(* popular symbols and the five pairs of every balance with free > 0 or    *)
(* locked > 0; a balance with neither contributes nothing.                 *)
C7_CandidateSymbols ==
    pc = "built" =>
        LET balances == DictGet(account_info.v, "balances")
        IN  /\ NoRepeats(symbols_with_balance)
            /\ Range(symbols_with_balance) =
                   {"BTCUSDT", "ETHUSDT", "BNBUSDT", "ADAUSDT", "SOLUSDT"}
                   \cup UNION {FivePairs(b.asset) : b \in {c \in Range(balances) : Held(c)}}

C7_Witness ==
    /\ pc = "built"
    /\ LET balances == DictGet(account_info.v, "balances")
       IN  /\ \E b \in Range(balances) : ~Held(b) /\ b.asset = "XRP"
           /\ \E b \in Range(balances) :
                  b.asset = "BTC" /\ b.free = "0.00000000" /\ b.locked = "2.50000000"
           /\ \A b \in Range(balances) : b.asset # "ADA"
    /\ Len(symbols_with_balance) = 8
    /\ "BTCBTC" \in Range(symbols_with_balance)
    /\ "XRPUSDT" \notin Range(symbols_with_balance)

\* responses received by the scan so far
Received == (IF pc = "account" THEN 0 ELSE 1) + idx

\* the requests of a scan, as they stand in any of its states
RequestsInOrder ==
    (InScan /\ pc # "idle") =>
        LET requested == RequestedSeq
        IN  /\ Len(sent) >= 1
            /\ sent[1].url = AccountUrl
            /\ pc = "account" => Len(sent) = 1
            /\ Len(sent) - Received \in {0, 1}
            /\ (Len(sent) - Received = 1) <=> (pc \in {"account", "orders"})
            /\ Len(sent) <= ScanCap + 1
            /\ \A i \in 2..Len(sent) :
                   /\ sent[i].url = AllOrdersUrl
                   /\ sent[i].params =
                          <<<<"limit", <<"int", 20>>>>, <<"symbol", <<"str", requested[i - 1]>>>>>>
                   /\ requested[i - 1] \in Range(symbols_with_balance)
            /\ Cardinality(Range(requested)) = Len(requested)

Running == InScan /\ pc \in {"account", "loop", "orders"}

\* an upper bound of the steps a running scan has left
StepsLeft ==
    CASE pc = "account" -> 2 * ScanCap + 2
      [] pc = "loop" -> 2 * (Min(Len(symbols_with_balance), ScanCap) - idx) + 1
      [] pc = "orders" -> 2 * (Min(Len(symbols_with_balance), ScanCap) - idx)
      [] OTHER -> 0

(* C8: in a scan the account request is answered before any per-symbol     *)
(* request is sent, at most one request is in flight, the per-symbol       *)
(* requests are at most 15, each for a different candidate symbol with     *)
(* limit=20, and the scan makes at most 16 requests; a running scan always *)
(* has a next step, and each step brings it closer to its return.          *)
C8_SequentialRequests ==
    /\ [](RequestsInOrder /\ (Running => ENABLED Next))
    /\ [][Running => (InScan' /\ StepsLeft' < StepsLeft)]_vars

C8_Witness ==
    /\ InScan
    /\ pc = "done"
    /\ Len(symbols_with_balance) > ScanCap
    /\ Len(sent) = ScanCap + 1
    /\ "BTCBTC" \in Range(RequestedSeq)

(* C9: every request carries the API key header and a signature, as its    *)
(* last parameter, computed over the serialization in insertion order of   *)
(* exactly the other transmitted parameters, the timestamp among them and  *)
(* no signature.                                                           *)
C9_SignedRequest ==
    request # NoRequest =>
        LET p == request.params
            signed == SubSeq(p, 1, Len(p) - 1)
        IN  /\ Len(p) >= 2
            /\ p[Len(p)][1] = "signature"
            /\ ~HasKey(signed, "signature")
            /\ NoRepeats(Keys(p))
            /\ HasKey(signed, "timestamp")
            /\ \E t \in 0..now : DictGet(signed, "timestamp") = <<"int", t>>
            /\ p[Len(p)][2] = <<"str", _generate_signature(urlencode(signed))>>
            /\ request.headers = <<<<"X-MBX-APIKEY", api_key>>>>

C9_Witness ==
    /\ op = "get_all_orders"
    /\ now = 1
    /\ request.url = AllOrdersUrl
    /\ Keys(request.params) = <<"limit", "symbol", "timestamp", "signature">>
    /\ DictGet(request.params, "signature") =
           <<"str", "hmac(SECRET,limit=10&symbol=BTCUSDT&timestamp=1)">>

(* C10: FILLED orders with the same time appear in the result in the order *)
(* the scan met them, and the truncation keeps the ones met first.         *)
C10_StableTies ==
    ScanCompleted =>
        /\ \A i, j \in 1..Len(Result) :
               (i < j /\ Result[i].time = Result[j].time)
                   => EncounteredBefore(Result[i], Result[j])
        /\ \A r \in Range(Result) : \A o \in Range(all_filled_orders) \ Range(Result) :
               r.time = o.time => EncounteredBefore(r, o)

C10_Witness ==
    /\ ScanCompleted
    /\ limit = 1
    /\ Len(all_filled_orders) = 2
    /\ all_filled_orders[1].time = all_filled_orders[2].time
    /\ all_filled_orders[1].symbol # all_filled_orders[2].symbol
    /\ all_filled_orders[1].orderId > all_filled_orders[2].orderId
    /\ Result = <<all_filled_orders[1]>>

=============================================================================
